---- MODULE Spec2Model ----
(***************************************************************************)
(* Colorize: the packaging manifest setup.py, run by a Python 3            *)
(* interpreter, and the command bin/colorize that the manifest declares.   *)
(*                                                                         *)
(* Spec          one run of setup.py: the import of distutils, the         *)
(*               evaluation of the keyword arguments of setup() from left  *)
(*               to right (two of them read a file), then the call.        *)
(* PipelineSpec  one run of the declared command bin/colorize, whose code  *)
(*               is not part of the sources; its four steps are taken      *)
(*               from the design document.                                 *)
(***************************************************************************)
EXTENDS Naturals, Sequences, FiniteSets, TLC

VARIABLES fs, distutils, pc, kw, handle, args, trace, passed, setupCalls, exc,
          doc, image, template, writable, ppc, theme, rendered, output, plog

svars == <<fs, distutils, pc, kw, handle, args, trace, passed, setupCalls, exc>>
pvars == <<doc, image, template, writable, ppc, theme, rendered, output, plog>>
vars == <<fs, distutils, pc, kw, handle, args, trace, passed, setupCalls, exc,
          doc, image, template, writable, ppc, theme, rendered, output, plog>>

----------------------------------------------------------------------------
(* Bounds of the model: the longest content of the two files. *)
MaxVersionLen == 3
MaxReadmeLen == 1

(* Characters a file may hold: a digit, a blank, and the two line-end characters. *)
CR == "\r"
LF == "\n"
SP == " "
Chars == {"1", SP, LF, CR}
Whitespace == {SP, LF, CR}

RECURSIVE SeqsUpTo(_)
SeqsUpTo(n) ==
    IF n = 0 THEN {<<>>}
    ELSE LET shorter == SeqsUpTo(n - 1)
         IN  shorter \cup {Append(s, c) : s \in {t \in shorter : Len(t) = n - 1}, c \in Chars}

(* A file of the working directory: absent, present but not openable,       *)
(* present but not decodable as text, or a readable text.                   *)
FileStates(n) ==
    {[status |-> st, content |-> <<>>] : st \in {"missing", "noperm", "undecodable"}}
    \cup {[status |-> "ok", content |-> c] : c \in SeqsUpTo(n)}

----------------------------------------------------------------------------
(* The keyword arguments of setup(), as written in setup.py. *)
Name == "Colorize"
Description == "Palette manager for term apps."
Author == "Yann 'Meow' Bordenave"
AuthorEmail == "meow@meo.wf"
License == "zlib"

InstallRequiresShort == <<"PyYAML", "jinja2">>
InstallRequires == <<"PyYAML", "jinja2", "pillow">>

PackagesOwn == <<"colorize">>
Packages == <<>>

ScriptsNone == <<>>
Scripts == <<"bin/colorize">>

VersionExprReadme == [kind |-> "file", file |-> "README"]
VersionExpr == [kind |-> "file", file |-> "VERSION"]

LongDescriptionExpr == [kind |-> "file", file |-> "README"]

OpenModeWrite == "w"
OpenMode == "r"

Lit(v) == [kind |-> "lit", value |-> v]

KwArgsReordered ==
    << [key |-> "name", expr |-> Lit(Name)],
       [key |-> "description", expr |-> Lit(Description)],
       [key |-> "long_description", expr |-> LongDescriptionExpr],
       [key |-> "author", expr |-> Lit(Author)],
       [key |-> "author_email", expr |-> Lit(AuthorEmail)],
       [key |-> "version", expr |-> VersionExpr],
       [key |-> "install_requires", expr |-> Lit(InstallRequires)],
       [key |-> "packages", expr |-> Lit(Packages)],
       [key |-> "license", expr |-> Lit(License)],
       [key |-> "scripts", expr |-> Lit(Scripts)] >>

(* Python evaluates the arguments of a call from left to right. *)
KwArgs ==
    << [key |-> "name", expr |-> Lit(Name)],
       [key |-> "description", expr |-> Lit(Description)],
       [key |-> "author", expr |-> Lit(Author)],
       [key |-> "author_email", expr |-> Lit(AuthorEmail)],
       [key |-> "version", expr |-> VersionExpr],
       [key |-> "install_requires", expr |-> Lit(InstallRequires)],
       [key |-> "packages", expr |-> Lit(Packages)],
       [key |-> "license", expr |-> Lit(License)],
       [key |-> "long_description", expr |-> LongDescriptionExpr],
       [key |-> "scripts", expr |-> Lit(Scripts)] >>

----------------------------------------------------------------------------
(* file.read() of a file opened in text mode with the default newline=None: *)
(* the whole content, with "\r\n" and a lone "\r" translated to "\n".       *)
RECURSIVE TranslateNewlines(_)
TranslateNewlines(s) ==
    IF s = <<>> THEN <<>>
    ELSE IF Head(s) = CR
         THEN IF Len(s) >= 2 /\ s[2] = LF
              THEN <<LF>> \o TranslateNewlines(SubSeq(s, 3, Len(s)))
              ELSE <<LF>> \o TranslateNewlines(Tail(s))
         ELSE <<Head(s)>> \o TranslateNewlines(Tail(s))

RECURSIVE StripLeft(_)
StripLeft(s) ==
    IF s # <<>> /\ Head(s) \in Whitespace THEN StripLeft(Tail(s)) ELSE s

RECURSIVE StripRight(_)
StripRight(s) ==
    IF s # <<>> /\ s[Len(s)] \in Whitespace THEN StripRight(SubSeq(s, 1, Len(s) - 1)) ELSE s

TextReadStripped(content) == StripRight(StripLeft(TranslateNewlines(content)))

TextRead(content) == TranslateNewlines(content)

(* open(name) raises when the file is absent or may not be opened. *)
OpenError(name) ==
    IF fs[name].status = "missing" THEN "FileNotFoundError"
    ELSE IF fs[name].status = "noperm" THEN "PermissionError"
    ELSE "none"

(* read() raises when the bytes are not text in the default encoding. *)
ReadError(name) ==
    IF fs[name].status = "undecodable" THEN "UnicodeDecodeError" ELSE "none"

----------------------------------------------------------------------------
(* The pipeline of bin/colorize is not running during a run of setup.py. *)
NoTheme == [r \in {} |-> "none"]

PipelineOff ==
    /\ doc = [ok |-> FALSE, theme |-> NoTheme]
    /\ image = [present |-> FALSE, colors |-> NoTheme]
    /\ template = {}
    /\ writable = FALSE
    /\ ppc = "off"
    /\ theme = NoTheme
    /\ rendered = NoTheme
    /\ output = NoTheme
    /\ plog = <<>>

Init ==
    /\ fs \in {[VERSION |-> v, README |-> r] :
                  v \in FileStates(MaxVersionLen), r \in FileStates(MaxReadmeLen)}
    /\ distutils \in BOOLEAN
    /\ pc = "import"
    /\ kw = 0
    /\ handle = "none"
    /\ args = <<>>
    /\ trace = <<>>
    /\ passed = <<>>
    /\ setupCalls = 0
    /\ exc = "none"
    /\ PipelineOff

(* After the keyword at position kw: the next keyword, or the call. *)
Advance ==
    IF kw < Len(KwArgs)
    THEN pc' = "kwargs" /\ kw' = kw + 1
    ELSE pc' = "call" /\ kw' = kw

(* A handler that swallows the exception and goes on with an empty value. *)
Swallows(e) ==
    /\ exc' = e
    /\ handle' = "none"
    /\ UNCHANGED <<passed, setupCalls>>
    /\ IF pc = "import"
       THEN pc' = "kwargs" /\ kw' = 1 /\ args' = args
       ELSE Advance /\ args' = args @@ (KwArgs[kw].key :> <<>>)

(* setup.py has no try statement: an exception ends the run at once. *)
Raises(e) ==
    /\ pc' = "raised"
    /\ exc' = e
    /\ UNCHANGED <<kw, handle, args, passed, setupCalls>>

(* from distutils.core import setup *)
Import ==
    /\ pc = "import"
    /\ IF distutils
       THEN /\ pc' = "kwargs"
            /\ kw' = 1
            /\ UNCHANGED <<handle, args, passed, setupCalls, exc>>
       ELSE Raises("ImportError")
    /\ UNCHANGED <<fs, distutils, trace>>
    /\ UNCHANGED pvars

(* A keyword whose value is a literal. *)
EvalLiteral ==
    /\ pc = "kwargs"
    /\ KwArgs[kw].expr.kind = "lit"
    /\ args' = args @@ (KwArgs[kw].key :> KwArgs[kw].expr.value)
    /\ Advance
    /\ UNCHANGED <<fs, distutils, handle, trace, passed, setupCalls, exc>>
    /\ UNCHANGED pvars

(* open('VERSION') and open('README'): the first half of open(..).read(). *)
OpenFile ==
    /\ pc = "kwargs"
    /\ KwArgs[kw].expr.kind = "file"
    /\ handle = "none"
    /\ LET f == KwArgs[kw].expr.file
       IN  /\ trace' = Append(trace, [op |-> "open", file |-> f, mode |-> OpenMode,
                                      key |-> KwArgs[kw].key, ok |-> OpenError(f) = "none"])
           /\ IF OpenError(f) = "none"
              THEN /\ handle' = f
                   /\ UNCHANGED <<pc, kw, args, passed, setupCalls, exc>>
              ELSE Raises(OpenError(f))
    /\ UNCHANGED <<fs, distutils>>
    /\ UNCHANGED pvars

(* .read() on the file just opened: the value of the keyword. *)
ReadFile ==
    /\ pc = "kwargs"
    /\ handle # "none"
    /\ trace' = Append(trace, [op |-> "read", file |-> handle, mode |-> OpenMode,
                               key |-> KwArgs[kw].key, ok |-> ReadError(handle) = "none"])
    /\ IF ReadError(handle) = "none"
       THEN /\ args' = args @@ (KwArgs[kw].key :> TextRead(fs[handle].content))
            /\ handle' = "none"
            /\ Advance
            /\ UNCHANGED <<passed, setupCalls, exc>>
       ELSE Raises(ReadError(handle))
    /\ UNCHANGED <<fs, distutils>>
    /\ UNCHANGED pvars

(* setup(...): entered once every argument has a value. *)
CallSetup ==
    /\ pc = "call"
    /\ passed' = args
    /\ setupCalls' = setupCalls + 1
    /\ trace' = Append(trace, [op |-> "setup", file |-> "none", mode |-> "none",
                               key |-> "none", ok |-> TRUE])
    /\ pc' = "done"
    /\ UNCHANGED <<fs, distutils, kw, handle, args, exc>>
    /\ UNCHANGED pvars

Next ==
    \/ Import
    \/ EvalLiteral
    \/ OpenFile
    \/ ReadFile
    \/ CallSetup

Spec == Init /\ [][Next]_vars

----------------------------------------------------------------------------
(* Properties of a run of setup.py. *)

Called == setupCalls > 0

Range(s) == {s[i] : i \in 1..Len(s)}

Events(op, file) == {i \in 1..Len(trace) : trace[i].op = op /\ trace[i].file = file}

(* C1: in every run that reaches the call, the scripts argument of setup()  *)
(* is the one-element list ['bin/colorize'], and no other kind of command   *)
(* (entry_points) is declared.                                              *)
C1_OneScript ==
    Called =>
        /\ Len(passed.scripts) = 1
        /\ passed.scripts[1] = "bin/colorize"
        /\ "entry_points" \notin DOMAIN passed

C1_Witness ==
    /\ pc = "done"
    /\ setupCalls = 1
    /\ "scripts" \in DOMAIN passed

(* C2: the version argument of setup() comes from the file VERSION and from *)
(* nothing else: it is the text read from VERSION, and VERSION is the only  *)
(* file opened or read while the version keyword is evaluated.              *)
C2_VersionFromFile ==
    Called =>
        /\ passed.version = TextRead(fs["VERSION"].content)
        /\ {trace[i].file : i \in {j \in 1..Len(trace) : trace[j].key = "version"}}
               = {"VERSION"}
        /\ Cardinality({j \in 1..Len(trace) : trace[j].key = "version"}) = 2

C2_Witness ==
    /\ Called
    /\ fs["VERSION"].content = <<"1", SP, "1">>
    /\ fs["README"].content = <<"1">>
    /\ passed.version = <<"1", SP, "1">>
    /\ passed.long_description = <<"1">>

(* C3: in every run that reaches the call, install_requires is exactly      *)
(* PyYAML, jinja2 and pillow, whatever VERSION and README hold.             *)
C3_Dependencies ==
    Called =>
        /\ Len(passed.install_requires) = 3
        /\ Range(passed.install_requires) = {"PyYAML", "jinja2", "pillow"}

C3_Witness ==
    /\ Called
    /\ fs["VERSION"].content = <<LF>>
    /\ fs["README"].content = <<>>
    /\ Len(passed.install_requires) = 3

(* C5: in every run that reaches the call, the packages argument is the     *)
(* empty list and no module, extension or data file is declared: the script *)
(* is the only artefact.                                                    *)
C5_NoPackages ==
    Called =>
        /\ passed.packages = <<>>
        /\ DOMAIN passed \cap {"py_modules", "ext_modules", "data_files"} = {}
        /\ Range(passed.scripts) = {"bin/colorize"}

C5_Witness ==
    /\ Called
    /\ "packages" \in DOMAIN passed
    /\ Len(passed.packages) = 0
    /\ Len(passed.scripts) = 1

(* The file accesses and the call of setup.py in program order. *)
ProgramOrder ==
    << <<"open", "VERSION">>, <<"read", "VERSION">>,
       <<"open", "README">>, <<"read", "README">>, <<"setup", "none">> >>

Ops == [i \in 1..Len(trace) |-> <<trace[i].op, trace[i].file>>]

(* C6: a run of setup.py is one sequential process: every file access is a  *)
(* read-mode access of VERSION or README, and what has happened so far is   *)
(* always a prefix of the accesses in program order.                        *)
C6_Sequential ==
    /\ \A i \in 1..Len(trace) :
           trace[i].op \in {"open", "read"} =>
               trace[i].mode = "r" /\ trace[i].file \in {"VERSION", "README"}
    /\ Len(trace) <= Len(ProgramOrder)
    /\ Ops = SubSeq(ProgramOrder, 1, Len(trace))

C6_Witness ==
    /\ pc = "done"
    /\ Len(trace) = 5
    /\ trace[4].op = "read"

(* C7: a failed open or read of VERSION or README ends the run with an      *)
(* error and setup() is not called; setup() is called only after both       *)
(* files were opened and read successfully.                                 *)
C7_FailureStopsRun ==
    /\ \A i \in 1..Len(trace) :
           ~trace[i].ok => pc = "raised" /\ exc # "none" /\ ~Called /\ passed = <<>>
    /\ Called =>
           \A f \in {"VERSION", "README"} :
               /\ fs[f].status = "ok"
               /\ \E i \in Events("open", f) : trace[i].ok
               /\ \E i \in Events("read", f) : trace[i].ok
    /\ (\E f \in {"VERSION", "README"} : fs[f].status # "ok") => pc # "done"

C7_Witness ==
    /\ pc = "raised"
    /\ exc = "FileNotFoundError"
    /\ fs["VERSION"].status = "ok"
    /\ fs["README"].status = "missing"
    /\ "version" \in DOMAIN args
    /\ ~Called

(* C8: VERSION is opened and read before README is opened, both reads are   *)
(* done before setup() is entered, setup() is called at most once, and a    *)
(* missing VERSION ends the run before README is opened.                    *)
C8_ReadOrder ==
    /\ \A i \in Events("open", "README") :
           \E j \in Events("read", "VERSION") : j < i /\ trace[j].ok
    /\ \A i \in Events("setup", "none") :
           /\ \E j \in Events("read", "VERSION") : j < i
           /\ \E j \in Events("read", "README") : j < i
    /\ setupCalls <= 1
    /\ Cardinality(Events("setup", "none")) = setupCalls
    /\ fs["VERSION"].status = "missing" => Events("open", "README") = {}

C8_Witness ==
    /\ pc = "raised"
    /\ fs["VERSION"].status = "missing"
    /\ fs["README"].status = "ok"
    /\ Len(trace) = 1
    /\ trace[1].file = "VERSION"

(* The positions of a content that text mode keeps: all but a "\n" that     *)
(* directly follows a "\r".                                                 *)
Kept(c) == {i \in 1..Len(c) : ~(c[i] = LF /\ i > 1 /\ c[i - 1] = CR)}

(* C9 as stated: the version argument is the content of VERSION verbatim,   *)
(* with no normalisation at all.                                            *)
C9_Verbatim ==
    Called => passed.version = fs["VERSION"].content

(* C9, amended: the version argument is the whole content of VERSION with   *)
(* nothing stripped (leading and trailing whitespace, a trailing newline    *)
(* and further lines are kept), except that the line ends "\r\n" and "\r"   *)
(* are each read as "\n"; a content with no "\r" is passed verbatim.        *)
C9_NoStripNewlinesTranslated ==
    Called =>
        LET c == fs["VERSION"].content
            v == passed.version
        IN  /\ Len(v) = Cardinality(Kept(c))
            /\ \A i \in Kept(c) :
                   v[Cardinality({j \in Kept(c) : j <= i})]
                       = IF c[i] = CR THEN LF ELSE c[i]
            /\ (CR \notin Range(c) => v = c)

C9_Witness ==
    /\ Called
    /\ fs["VERSION"].content = <<SP, "1", LF>>
    /\ passed.version = <<SP, "1", LF>>

----------------------------------------------------------------------------
(* One run of the command bin/colorize, after the design document: a theme  *)
(* document is loaded, colours sampled from an image may override it, the   *)
(* theme is bound into a template, and the result is written.               *)

Roles == {"background", "foreground"}
Colors == {"#000000", "#ffffff"}
Themes == UNION {[S -> Colors] : S \in SUBSET Roles}

(* setup.py is not running during a run of the command. *)
SetupOff ==
    /\ fs = [VERSION |-> [status |-> "missing", content |-> <<>>],
             README |-> [status |-> "missing", content |-> <<>>]]
    /\ distutils = FALSE
    /\ pc = "off"
    /\ kw = 0
    /\ handle = "none"
    /\ args = <<>>
    /\ trace = <<>>
    /\ passed = <<>>
    /\ setupCalls = 0
    /\ exc = "none"

PipelineInit ==
    /\ doc \in {[ok |-> o, theme |-> t] : o \in BOOLEAN, t \in Themes}
    /\ ~doc.ok => doc.theme = NoTheme
    /\ image \in {[present |-> o, colors |-> t] : o \in BOOLEAN, t \in Themes}
    /\ ~image.present => image.colors = NoTheme
    /\ template \in SUBSET Roles
    /\ writable \in BOOLEAN
    /\ ppc = "start"
    /\ theme = NoTheme
    /\ rendered = NoTheme
    /\ output = NoTheme
    /\ plog = <<>>
    /\ SetupOff

LoaderStart ==
    /\ ppc = "start"
    /\ ppc' = "loading"
    /\ plog' = Append(plog, "LoaderStart")
    /\ UNCHANGED <<doc, image, template, writable, theme, rendered, output>>
    /\ UNCHANGED svars

(* A malformed theme document fails the run. *)
LoaderFinish ==
    /\ ppc = "loading"
    /\ IF doc.ok
       THEN /\ theme' = doc.theme
            /\ ppc' = "loaded"
            /\ plog' = Append(plog, "LoaderFinish")
       ELSE /\ theme' = theme
            /\ ppc' = "failed"
            /\ plog' = Append(plog, "LoaderFailed")
    /\ UNCHANGED <<doc, image, template, writable, rendered, output>>
    /\ UNCHANGED svars

(* The optional step: taken when a reference image is given. *)
SamplerStart ==
    /\ ppc = "loaded"
    /\ image.present
    /\ ppc' = "sampling"
    /\ plog' = Append(plog, "SamplerStart")
    /\ UNCHANGED <<doc, image, template, writable, theme, rendered, output>>
    /\ UNCHANGED svars

(* The sampled colours seed or override the theme. *)
SamplerFinish ==
    /\ ppc = "sampling"
    /\ theme' = image.colors @@ theme
    /\ ppc' = "sampled"
    /\ plog' = Append(plog, "SamplerFinish")
    /\ UNCHANGED <<doc, image, template, writable, rendered, output>>
    /\ UNCHANGED svars

RendererMayStartEarly ==
    \/ ppc = "start"
    \/ ppc = "loaded"
    \/ ppc = "sampled"

RendererMayStart ==
    \/ ppc = "loaded" /\ ~image.present
    \/ ppc = "sampled"

RendererStart ==
    /\ RendererMayStart
    /\ ppc' = "rendering"
    /\ plog' = Append(plog, "RendererStart")
    /\ UNCHANGED <<doc, image, template, writable, theme, rendered, output>>
    /\ UNCHANGED svars

(* Every placeholder resolves to a role of the theme, or the render fails. *)
RendererFinish ==
    /\ ppc = "rendering"
    /\ IF template \subseteq DOMAIN theme
       THEN /\ rendered' = [r \in template |-> theme[r]]
            /\ ppc' = "rendered"
            /\ plog' = Append(plog, "RendererFinish")
       ELSE /\ rendered' = rendered
            /\ ppc' = "failed"
            /\ plog' = Append(plog, "RendererFailed")
    /\ UNCHANGED <<doc, image, template, writable, theme, output>>
    /\ UNCHANGED svars

WriterStart ==
    /\ ppc = "rendered"
    /\ ppc' = "writing"
    /\ plog' = Append(plog, "WriterStart")
    /\ UNCHANGED <<doc, image, template, writable, theme, rendered, output>>
    /\ UNCHANGED svars

(* An unwritable output path fails the run. *)
WriterFinish ==
    /\ ppc = "writing"
    /\ IF writable
       THEN /\ output' = rendered
            /\ ppc' = "written"
            /\ plog' = Append(plog, "WriterFinish")
       ELSE /\ output' = output
            /\ ppc' = "failed"
            /\ plog' = Append(plog, "WriterFailed")
    /\ UNCHANGED <<doc, image, template, writable, theme, rendered>>
    /\ UNCHANGED svars

PipelineNext ==
    \/ LoaderStart
    \/ LoaderFinish
    \/ SamplerStart
    \/ SamplerFinish
    \/ RendererStart
    \/ RendererFinish
    \/ WriterStart
    \/ WriterFinish

PipelineSpec == PipelineInit /\ [][PipelineNext]_vars

At(ev) == {i \in 1..Len(plog) : plog[i] = ev}

(* C4: the four steps run in the order Loader, optional Sampler, Renderer,  *)
(* Writer: the Renderer starts only after the Loader has finished, the      *)
(* Writer only after the Renderer has finished, and the Sampler, when it    *)
(* runs, starts after the Loader has finished and finishes before the       *)
(* Renderer starts.                                                         *)
C4_LinearPipeline ==
    /\ \A i \in At("RendererStart") : \E j \in At("LoaderFinish") : j < i
    /\ \A i \in At("WriterStart") : \E j \in At("RendererFinish") : j < i
    /\ \A i \in At("SamplerStart") : \E j \in At("LoaderFinish") : j < i
    /\ \A i \in At("SamplerStart") : \A k \in At("RendererStart") : i < k
    /\ \A k \in At("RendererStart") :
           At("SamplerStart") # {} => \E j \in At("SamplerFinish") : j < k
    /\ \A ev \in Range(plog) : Cardinality(At(ev)) = 1

C4_Witness ==
    /\ ppc = "written"
    /\ image.present
    /\ Len(plog) = 8
    /\ plog[3] = "SamplerStart"
    /\ plog[5] = "RendererStart"

====
